---- MODULE Spec2Model ----
(***************************************************************************)
(* Model of the bot supervisor of bot-control.js (class BotManager): the   *)
(* per-endpoint connection lifecycle, reconnect scheduling, keep-alive     *)
(* timers and the outbound message queue.  Every handler of the class is   *)
(* one atomic action (Node.js runs one callback at a time).  The external  *)
(* client library (mineflayer) is the environment: it creates handles,     *)
(* may fail to create one, may fail a chat call, and delivers the events   *)
(* of each handle along the connection's life:                             *)
(*   connecting --spawn--> spawned;  connecting, spawned --kicked, error-->*)
(*   failing (further kicked/error possible);  quit() --> closing;         *)
(*   connecting, spawned, failing, closing --end--> closed.                *)
(* Events reach the supervisor whether or not the handle is still the one  *)
(* registered for its endpoint.                                            *)
(***************************************************************************)
EXTENDS Integers, Sequences, FiniteSets, TLC

\* ---- bounds of the model ------------------------------------------------
MaxHandles == 2      \* handles that have not yet emitted end, at a time (Spec)
MaxHandlesMsg == 1   \* the same, in SpecMsg
MaxHandlesTimers == 2 \* the same, in SpecTimers
MaxSignals == 1      \* kicked/error signals one handle emits before its end
MaxAttempts == 2     \* createBot may throw only while the counter is below
MaxMsgs == 2         \* messages handed to sendMessage (SpecMsg)
MaxFailures == 4     \* the count of consecutive failed attempts stops here
MaxHandlesPair == 2  \* handles that have not yet emitted end (SpecPair)
MaxMsgsPair == 1     \* messages handed to sendMessage (SpecPair)
MaxHandlesChat == 1  \* handles that have not yet emitted end (SpecChat)
MaxMsgsChat == 2     \* messages handed to sendMessage (SpecChat)
MaxCount == 11       \* createBot may throw at a retry while the counter is below (SpecDelay)

\* ---- values -------------------------------------------------------------
AllIds == {"e1", "e2"}
None == 0            \* Map.get(...) === undefined: no handle, no interval
Null == "null"       \* connectedSince: null, lastError: null
Timestamp == "date"  \* new Date().toISOString()
NoTimer == [pending |-> FALSE, enabled |-> FALSE, delay |-> 0]
\* the record of a flush whose history is not kept, or is of no use any more
NoFlush == [id |-> "e1", msgs |-> <<>>, h |-> None, intact |-> FALSE, sent |-> <<>>,
            spaced |-> TRUE, close |-> FALSE]
NoOp == [op |-> "init", id |-> "e1", h |-> None, ret |-> "none", fresh |-> FALSE,
         sched |-> FALSE, ms |-> FALSE, en |-> FALSE]
\* a bot object that has emitted end (or was never created): no listener of it
\* runs again and the supervisor holds no reference to it
Closed == [id |-> "e1", enabled |-> FALSE, manuallyStopped |-> FALSE,
           phase |-> "closed", nsig |-> 0]

VARIABLES
    ids,               \* the endpoint ids in use (fixed by Init)
    trace,             \* the histories that are kept: a subset of
                       \* {"chat", "sent", "flush", "stops", "fails"} (fixed by Init)
    bots,              \* this.bots: id -> registered handle, None if absent
    botStatus,         \* this.botStatus: id -> status record
    keepAliveTimers,   \* this.keepAliveTimers: id -> handle the interval closes over
    intervals,         \* id -> number of keep-alive intervals set and not cleared
    reconnectTimers,   \* this.reconnectTimers: id -> pending timeout and its config
    reconnects,        \* id -> number of reconnect timeouts set, not cleared, not fired
    messageQueue,      \* this.messageQueue: id -> queued messages
    reconnectAttempts, \* this.reconnectAttempts: id -> counter
    handles,           \* the bot objects createBot returned, by slot
    timeouts,          \* pending anonymous setTimeout callbacks
    chatLog,           \* history: calls of bot.chat(message) for accepted messages
    sent,              \* history: message -> number of its chat calls that returned
    flushes,           \* history: the flushes processMessageQueue started
    nextMsg,           \* number of the next message handed to sendMessage
    stopped,           \* history: id -> how the last explicit stop found it
    failures,          \* history: id -> connection attempts that failed in a row
    lastOp             \* history: the handler that ran last and what it did

vars == <<ids, trace, bots, botStatus, keepAliveTimers, intervals, reconnectTimers,
          reconnects, messageQueue,
          reconnectAttempts, handles, timeouts, chatLog, sent, flushes, nextMsg,
          stopped, failures, lastOp>>

\* The manager's fields as one value, threaded through the calls of a handler.
\* ret records what the running handler returned or did, sched that it set a
\* reconnect timeout, fired the id whose reconnect timeout is running this
\* handler while it is still kept in reconnectTimers ("none" otherwise).
Cur ==
    [bots |-> bots, botStatus |-> botStatus, keepAliveTimers |-> keepAliveTimers,
     intervals |-> intervals,
     reconnectTimers |-> reconnectTimers, reconnects |-> reconnects,
     messageQueue |-> messageQueue,
     reconnectAttempts |-> reconnectAttempts, handles |-> handles,
     timeouts |-> timeouts, chatLog |-> chatLog, sent |-> sent, flushes |-> flushes,
     trace |-> trace, ret |-> "none", sched |-> FALSE, fired |-> "none"]

\* ---- helpers of the handlers -------------------------------------------

\* { ...currentStatus, ...updates }
MergeStatusMut(cur, updates) ==
    [f \in DOMAIN cur \cup DOMAIN updates |->
        IF f \in DOMAIN updates THEN updates[f] ELSE Null]
MergeStatus(cur, updates) ==
    [f \in DOMAIN cur \cup DOMAIN updates |->
        IF f \in DOMAIN updates THEN updates[f] ELSE cur[f]]

updateStatus(s, id, updates) ==
    [s EXCEPT !.botStatus[id] = MergeStatus(@, updates)]

\* botConfig.enabled !== false
AutoReconnectMut(cfg) == TRUE
AutoReconnect(cfg) == cfg.enabled # FALSE

\* this.bots.has(botId)
IsRunningMut(s, id) == FALSE
IsRunning(s, id) == s.bots[id] # None

\* bot && bot.manuallyStopped, for the handle registered under id
RegisteredStopped(s, id) ==
    s.bots[id] # None /\ s.handles[s.bots[id]].manuallyStopped

\* Math.min(300000, 5000 * Math.pow(1.5, attempts)), in 1/1024 ms
RECURSIVE ReconnectDelay(_)
ReconnectDelayMut(attempts) == ((5000 * 1024) \div 2^attempts) * 3^attempts
ReconnectDelay(attempts) ==
    IF attempts = 0 THEN 5000 * 1024
    ELSE LET d == (ReconnectDelay(attempts - 1) * 3) \div 2
         IN IF d < 300000 * 1024 THEN d ELSE 300000 * 1024

\* clearTimeout of the reconnect timeout kept under id, if there is one; a
\* timeout that has fired is not live any more
clearTimeoutMut(s, id) == s
clearTimeout(s, id) ==
    IF ~s.reconnectTimers[id].pending \/ s.fired = id THEN s
    ELSE [s EXCEPT !.reconnects[id] = @ - 1]

\* clearTimeout and this.reconnectTimers.delete(botId)
clearReconnectTimerMut(s, id) ==
    [s EXCEPT !.reconnectTimers = [i \in AllIds |-> NoTimer]]
clearReconnectTimer(s, id) ==
    [clearTimeout(s, id) EXCEPT !.reconnectTimers[id] = NoTimer,
                                !.fired = IF @ = id THEN "none" ELSE @]

scheduleReconnectMut(s, id, cfg) == s
scheduleReconnect(s, id, cfg) ==
    IF ~AutoReconnect(cfg) THEN s
    ELSE IF RegisteredStopped(s, id) THEN s
    ELSE LET attempts == s.reconnectAttempts[id] + 1
         IN [clearTimeout(s, id) EXCEPT
                      !.reconnectAttempts[id] = attempts,
                      !.reconnects[id] = @ + 1,
                      !.reconnectTimers[id] =
                          [pending |-> TRUE, enabled |-> cfg.enabled,
                           delay |-> ReconnectDelay(attempts)],
                      !.fired = IF @ = id THEN "none" ELSE @,
                      !.sched = TRUE]

\* clearInterval of the timer kept under id, if there is one
clearKeepAliveMut(s, id) == s
clearKeepAlive(s, id) ==
    IF s.keepAliveTimers[id] = None THEN s
    ELSE [s EXCEPT !.intervals[id] = @ - 1, !.keepAliveTimers[id] = None]

cleanupBotMut(s, id, keepReconnect) ==
    LET s1 == [clearKeepAlive(s, id) EXCEPT !.bots[id] = None,
                                            !.messageQueue[id] = <<>>]
    IN IF keepReconnect THEN s1 ELSE clearReconnectTimer(s1, id)
cleanupBot(s, id, keepReconnect) ==
    LET s1 == [clearKeepAlive(s, id) EXCEPT !.bots[id] = None]
    IN IF keepReconnect THEN s1 ELSE clearReconnectTimer(s1, id)

\* setInterval(..., 45000) for the registered handle, kept under id
startKeepAliveMut(s, id) ==
    IF s.bots[id] = None THEN s
    ELSE [s EXCEPT !.intervals[id] = @ + 1, !.keepAliveTimers[id] = s.bots[id]]
startKeepAlive(s, id) ==
    IF s.bots[id] = None THEN s
    ELSE [clearKeepAlive(s, id) EXCEPT !.intervals[id] = @ + 1,
                                       !.keepAliveTimers[id] = s.bots[id]]

\* setTimeout(..., 1000 * index): the delay of the queued message at index,
\* in seconds
FlushDelayMut(index) == 0
FlushDelay(index) == index

\* queue.push(message)
PushMut(queue, message) == <<message>> \o queue
Push(queue, message) == Append(queue, message)

Timeout(kind, id, h, msg, due, f, idx) ==
    [kind |-> kind, id |-> id, h |-> h, msg |-> msg, due |-> due, f |-> f, idx |-> idx]

processMessageQueueMut(s, id) ==
    LET queue == s.messageQueue[id]
        f == Len(s.flushes) + 1
    IN IF Len(queue) = 0 THEN s
       ELSE [s EXCEPT
               !.timeouts = @ \cup
                   { Timeout("flush", id, None, queue[i], FlushDelay(i - 1), f, i)
                       : i \in 1..Len(queue) },
               !.flushes = Append(@, NoFlush)]
processMessageQueue(s, id) ==
    LET queue == s.messageQueue[id]
        f == Len(s.flushes) + 1
    IN IF Len(queue) = 0 THEN s
       ELSE [s EXCEPT
               !.timeouts = @ \cup
                   { Timeout("flush", id, None, queue[i], FlushDelay(i - 1), f, i)
                       : i \in 1..Len(queue) },
               !.flushes = Append(@, IF "flush" \in s.trace
                                     THEN [id |-> id, msgs |-> queue, h |-> s.bots[id],
                                           intact |-> TRUE, sent |-> <<>>,
                                           spaced |-> TRUE, close |-> FALSE]
                                     ELSE NoFlush),
               !.messageQueue[id] = <<>>]

\* ---- the public operations ----------------------------------------------

NewHandle(cfg) ==
    [id |-> cfg.id, enabled |-> cfg.enabled, manuallyStopped |-> FALSE,
     phase |-> "connecting", nsig |-> 0]

\* a slot is free when its object has ended and no pending timeout refers to it
IsFree(s, h) ==
    s.handles[h].phase = "closed" /\ ~\E to \in s.timeouts : to.h = h
HasFree(s) == \E h \in DOMAIN s.handles : IsFree(s, h)
FreeSlot(s) ==
    CHOOSE h \in DOMAIN s.handles :
        IsFree(s, h) /\ \A g \in DOMAIN s.handles : IsFree(s, g) => h <= g

\* this.reconnectAttempts.set(botId, 0) after createBot returned
ResetOnStartMut(s, id) == s
ResetOnStart(s, id) == [s EXCEPT !.reconnectAttempts[id] = 0]

\* created: mineflayer.createBot returned a bot (TRUE) or threw (FALSE)
startBot(s, cfg, created) ==
    LET id == cfg.id
        s1 == clearReconnectTimer(s, id)
    IN IF IsRunning(s1, id) THEN [s1 EXCEPT !.ret = "running"]
       ELSE LET s2 == updateStatus(s1, id, [status |-> "connecting"])
            IN IF created
               THEN ResetOnStart(
                        [s2 EXCEPT !.handles[FreeSlot(s2)] = NewHandle(cfg),
                                   !.bots[id] = FreeSlot(s2),
                                   !.ret = "created"], id)
               ELSE LET s3 == updateStatus(s2, id, [status |-> "error",
                                                    lastError |-> "error"])
                        s4 == IF AutoReconnect(cfg)
                              THEN scheduleReconnect(s3, id, cfg) ELSE s3
                    IN [s4 EXCEPT !.ret = "failed"]

stopBotMut(s, id) ==
    LET bot == s.bots[id]
        s1 == clearReconnectTimer(s, id)
    IN IF bot # None
       THEN cleanupBot([s1 EXCEPT !.handles[bot].manuallyStopped = TRUE,
                                  !.handles[bot].phase = "closing"], id, FALSE)
       ELSE updateStatus(s1, id, [status |-> "offline"])
stopBot(s, id) ==
    LET bot == s.bots[id]
        s1 == clearReconnectTimer(s, id)
        s2 == [s1 EXCEPT !.reconnectAttempts[id] = 0]
    IN IF bot # None
       THEN cleanupBot([s2 EXCEPT !.handles[bot].manuallyStopped = TRUE,
                                  !.handles[bot].phase = "closing"], id, FALSE)
       ELSE updateStatus(s2, id, [status |-> "offline"])

\* this.bots.forEach(...) over the registered handles, then this.bots.clear()
RECURSIVE shutdownEach(_, _)
shutdownEach(s, todo) ==
    IF todo = {} THEN s
    ELSE LET id == CHOOSE i \in todo : TRUE
             s1 == [s EXCEPT !.handles[s.bots[id]].phase = "closing"]
         IN shutdownEach(cleanupBot(s1, id, FALSE), todo \ {id})

shutdownAllMut(s) == stopBot(s, "e1")
shutdownAll(s) ==
    LET s1 == shutdownEach(s, {id \in AllIds : s.bots[id] # None})
    IN [s1 EXCEPT !.bots = [id \in AllIds |-> None]]

\* one call of bot.chat(msg): through a handle in phase via, from sendMessage
\* ("direct") or from a flush timeout ("flush"); ok: it returned
ChatEntry(msg, src, via, ok) ==
    [msg |-> msg, src |-> src, via |-> via, ok |-> ok]

\* one more chat call of msg has returned
Returned(count, msg) ==
    [m \in DOMAIN count \cup {msg} |->
        IF m = msg THEN (IF m \in DOMAIN count THEN count[m] + 1 ELSE 1)
        ELSE count[m]]

chat(s, id, msg, src, ok) ==
    LET s1 == IF "sent" \in s.trace /\ ok
              THEN [s EXCEPT !.sent = Returned(@, msg)] ELSE s
    IN IF "chat" \in s1.trace
       THEN [s1 EXCEPT !.chatLog =
                Append(@, ChatEntry(msg, src, s1.handles[s1.bots[id]].phase, ok))]
       ELSE s1

enqueueMut(s, id, message) == [s EXCEPT !.ret = "queued"]
enqueue(s, id, message) ==
    [s EXCEPT !.messageQueue[id] = Push(@, message), !.ret = "queued"]

\* bot && bot.chat, for the handle registered under id
CanChat(s, id) == IsRunning(s, id)

\* chatOk: bot.chat(message) returned (TRUE) or threw (FALSE)
sendMessage(s, id, message, chatOk) ==
    IF CanChat(s, id)
    THEN LET s1 == chat(s, id, message, "direct", chatOk)
         IN IF chatOk THEN [s1 EXCEPT !.ret = "sent"]
            ELSE [enqueue(s1, id, message) EXCEPT !.ret = "failed"]
    ELSE enqueue(s, id, message)

\* ---- handlers of the client's events, for handle h ----------------------

onSpawn(s, h) ==
    LET id == s.handles[h].id
        s1 == updateStatus(s, id, [status |-> "online", connectedSince |-> Timestamp])
        s2 == [s1 EXCEPT !.timeouts = @ \cup
                             {Timeout("login1", id, None, 0, 0, 0, 0)},
                         !.handles[h].phase = "spawned"]
    IN processMessageQueue(startKeepAlive(s2, id), id)

\* botConfig.enabled !== false && !bot.manuallyStopped, for the emitting handle
WantsReconnect(s, h) ==
    AutoReconnect(s.handles[h]) /\ ~s.handles[h].manuallyStopped

onDisconnectMut(s, h, updates) ==
    LET id == s.handles[h].id
        cfg == [id |-> id, enabled |-> s.handles[h].enabled]
        s1 == updateStatus(s, id, updates)
    IN IF WantsReconnect(s1, h) THEN scheduleReconnect(s1, id, cfg) ELSE s1
onDisconnect(s, h, updates) ==
    LET id == s.handles[h].id
        cfg == [id |-> id, enabled |-> s.handles[h].enabled]
        s1 == updateStatus(s, id, updates)
        s2 == IF WantsReconnect(s1, h) THEN scheduleReconnect(s1, id, cfg) ELSE s1
    IN cleanupBot(s2, id, TRUE)

onKicked(s, h) ==
    onDisconnect([s EXCEPT !.handles[h].nsig = @ + 1,
                           !.handles[h].phase = "failing"], h,
                 [status |-> "offline", lastError |-> "kicked"])

onError(s, h) ==
    onDisconnect([s EXCEPT !.handles[h].nsig = @ + 1,
                           !.handles[h].phase = "failing"], h,
                 [status |-> "error", lastError |-> "error"])

onEnd(s, h) ==
    onDisconnect([s EXCEPT !.handles[h].phase = "closed"], h,
                 [status |-> "offline"])

\* ---- timer callbacks ----------------------------------------------------

\* the reconnect timeout of id: this.startBot(botConfig, this.io)
reconnectFire(s, id, created) ==
    LET t == s.reconnectTimers[id]
        s1 == [s EXCEPT !.reconnects[id] = @ - 1, !.fired = id]
    IN startBot(s1, [id |-> id, enabled |-> t.enabled], created)

\* the timeout of one queued message
flushFireMut(s, to, chatOk) ==
    LET s1 == [s EXCEPT !.timeouts = @ \ {to}]
    IN IF CanChat(s1, to.id) /\ chatOk THEN s1
       ELSE [s1 EXCEPT !.messageQueue[to.id] = Append(@, to.msg)]
flushFire(s, to, chatOk) ==
    LET s1 == [s EXCEPT !.timeouts = @ \ {to}]
        s2 == IF CanChat(s1, to.id) THEN chat(s1, to.id, to.msg, "flush", chatOk)
              ELSE s1
    IN IF CanChat(s1, to.id) /\ s1.flushes[to.f].intact
       THEN [s2 EXCEPT
                !.flushes[to.f].sent = Append(@, to.msg),
                !.flushes[to.f].close = @ \/ ~s1.flushes[to.f].spaced,
                !.flushes[to.f].spaced = FALSE]
       ELSE s2

\* the 5 s timeout after spawn: /register, then the 2 s timeout for /login;
\* password: botConfig.password is set (its one use by the supervisor)
login1Fire(s, to, password) ==
    LET s1 == [s EXCEPT !.timeouts = @ \ {to}]
    IN IF password
       THEN [s1 EXCEPT !.ret = "chat",
                       !.timeouts = @ \cup {Timeout("login2", to.id, None, 0, 0, 0, 0)}]
       ELSE s1

login2Fire(s, to) ==
    [s EXCEPT !.timeouts = @ \ {to}, !.ret = "chat"]

\* one tick of the keep-alive interval of id; outcome: what the tick's random
\* choices and the client's calls did ("throw": lookAt threw)
keepAliveFire(s, id, outcome) ==
    LET h == s.keepAliveTimers[id]
    IN IF s.handles[h].phase # "spawned" THEN s
       ELSE IF outcome = "throw" THEN [s EXCEPT !.ret = "acted"]
       ELSE [s EXCEPT !.ret = "acted",
                      !.timeouts = @ \cup
                          {Timeout("kaForward", id, h, 0, 0, 0, 0)} \cup
                          (IF outcome = "jump"
                           THEN {Timeout("kaJump", id, h, 0, 0, 0, 0)} ELSE {})]

\* the delayed setControlState(..., false) of a keep-alive tick
keepAliveFollowUp(s, to) ==
    [s EXCEPT !.timeouts = @ \ {to}, !.ret = "acted"]

\* ---- the state machine --------------------------------------------------

InitStatus == [status |-> "offline", connectedSince |-> Null, lastError |-> Null]

InitWith(active, maxH, kept) ==
    /\ ids = active
    /\ trace = kept
    /\ bots = [id \in AllIds |-> None]
    /\ botStatus = [id \in AllIds |-> InitStatus]
    /\ keepAliveTimers = [id \in AllIds |-> None]
    /\ intervals = [id \in AllIds |-> 0]
    /\ reconnectTimers = [id \in AllIds |-> NoTimer]
    /\ reconnects = [id \in AllIds |-> 0]
    /\ messageQueue = [id \in AllIds |-> <<>>]
    /\ reconnectAttempts = [id \in AllIds |-> 0]
    /\ handles = [h \in 1..maxH |-> Closed]
    /\ timeouts = {}
    /\ chatLog = <<>>
    /\ sent = [m \in {} |-> 0]
    /\ flushes = <<>>
    /\ nextMsg = 1
    /\ stopped = [id \in AllIds |-> "no"]
    /\ failures = [id \in AllIds |-> 0]
    /\ lastOp = NoOp

Init == InitWith({"e1"}, MaxHandles, {})

\* the history of explicit starts and stops, where it is kept
Stopped(id, how) ==
    IF "stops" \in trace THEN [stopped EXCEPT ![id] = how] ELSE stopped

FlushPending(s, f) == \E to \in s.timeouts : to.kind = "flush" /\ to.f = f

\* a flush stays intact while the handle it started with stays registered
TrackFlushes(s) ==
    [f \in DOMAIN s.flushes |->
        IF FlushPending(s, f) /\ (s.flushes[f].h = None \/ s.bots[s.flushes[f].id] # s.flushes[f].h)
        THEN NoFlush
        ELSE s.flushes[f]]

\* the record of a handler's run: h the handle it ran for (None if none), with
\* that handle's manuallyStopped flag (ms) before the run, en the enabled flag
\* of the config it ran with
Op(name, id, h, s, fresh, en) ==
    [op |-> name, id |-> id, h |-> h, ret |-> s.ret, fresh |-> fresh,
     sched |-> s.sched, ms |-> (h # None /\ handles[h].manuallyStopped), en |-> en]

\* the history of failed connection attempts, where it is kept.  An attempt
\* fails when createBot throws or when its handle emits kicked, error or end
\* before spawn; the row starts with an explicit startBot and ends at spawn
\* (Online), stopBot and shutdownAll.
Failures(o) ==
    LET more(n) == IF n < MaxFailures THEN n + 1 ELSE n
    IN IF "fails" \notin trace THEN failures
       ELSE IF o.op = "startBot" /\ o.ret # "running"
       THEN [failures EXCEPT ![o.id] = IF o.ret = "failed" THEN 1 ELSE 0]
       ELSE IF o.op = "reconnectFire" /\ o.ret = "failed"
       THEN [failures EXCEPT ![o.id] = more(@)]
       ELSE IF o.op \in {"kicked", "error", "end"} /\ handles[o.h].phase = "connecting"
       THEN [failures EXCEPT ![o.id] = more(@)]
       ELSE IF o.op \in {"spawn", "stopBot"}
       THEN [failures EXCEPT ![o.id] = 0]
       ELSE IF o.op = "shutdownAll" THEN [id \in AllIds |-> 0]
       ELSE failures

\* the fields of an ended bot object are read no more
Forget(s) ==
    [h \in DOMAIN s.handles |->
        IF IsFree(s, h) THEN Closed ELSE s.handles[h]]

Commit(s, op, stp) ==
    \E v \in {s}, o \in {op} :
        /\ bots' = v.bots
        /\ botStatus' = v.botStatus
        /\ keepAliveTimers' = v.keepAliveTimers
        /\ intervals' = v.intervals
        /\ reconnectTimers' = v.reconnectTimers
        /\ reconnects' = v.reconnects
        /\ messageQueue' = v.messageQueue
        /\ reconnectAttempts' = v.reconnectAttempts
        /\ handles' = Forget(v)
        /\ timeouts' = v.timeouts
        /\ chatLog' = v.chatLog
        /\ sent' = v.sent
        /\ flushes' = TrackFlushes(v)
        /\ stopped' = stp
        /\ failures' = Failures(o)
        /\ lastOp' = o
        /\ UNCHANGED <<ids, trace>>

NewestHandle(s, id) == IF s.ret = "created" THEN s.bots[id] ELSE None

\* createBot returns a new object only while the model has a slot for it
CanCreate(id, created) == created => (IsRunning(Cur, id) \/ HasFree(Cur))

StartBot(id, en, created) ==
    /\ id \in ids
    /\ ~created => reconnectAttempts[id] < MaxAttempts
    /\ CanCreate(id, created)
    /\ LET s == startBot(Cur, [id |-> id, enabled |-> en], created)
       IN Commit(s, Op("startBot", id, NewestHandle(s, id), s, FALSE, en),
                 Stopped(id, "no"))
    /\ UNCHANGED nextMsg

ReconnectFire(id, created) ==
    /\ id \in ids
    /\ reconnectTimers[id].pending
    /\ ~created => reconnectAttempts[id] < MaxAttempts
    /\ CanCreate(id, created)
    /\ LET s == reconnectFire(Cur, id, created)
       IN Commit(s, Op("reconnectFire", id, NewestHandle(s, id), s, FALSE,
                       reconnectTimers[id].enabled), stopped)
    /\ UNCHANGED nextMsg

StopBot(id) ==
    /\ id \in ids
    /\ LET s == stopBot(Cur, id)
       IN Commit(s, Op("stopBot", id, bots[id], s, FALSE, FALSE),
                 Stopped(id, IF bots[id] # None THEN "handle" ELSE "nohandle"))
    /\ UNCHANGED nextMsg

ShutdownAll ==
    /\ LET s == shutdownAll(Cur)
       IN Commit(s, Op("shutdownAll", "e1", None, s, FALSE, FALSE), stopped)
    /\ UNCHANGED nextMsg

SendMessage(id, chatOk) ==
    /\ id \in ids
    /\ LET s == sendMessage(Cur, id, nextMsg, chatOk)
       IN Commit(s, Op("sendMessage", id, bots[id], s, FALSE, FALSE), stopped)
    /\ nextMsg' = nextMsg + 1

Phase(h) == handles[h].phase

Spawn(h) ==
    /\ Phase(h) = "connecting"
    /\ LET s == onSpawn(Cur, h)
       IN Commit(s, Op("spawn", handles[h].id, h, s,
                       lastOp.ret = "created" /\ lastOp.h = h, handles[h].enabled),
                 stopped)
    /\ UNCHANGED nextMsg

Kicked(h) ==
    /\ Phase(h) \in {"connecting", "spawned", "failing"}
    /\ handles[h].nsig < MaxSignals
    /\ LET s == onKicked(Cur, h)
       IN Commit(s, Op("kicked", handles[h].id, h, s, FALSE, handles[h].enabled), stopped)
    /\ UNCHANGED nextMsg

Error(h) ==
    /\ Phase(h) \in {"connecting", "spawned", "failing"}
    /\ handles[h].nsig < MaxSignals
    /\ LET s == onError(Cur, h)
       IN Commit(s, Op("error", handles[h].id, h, s, FALSE, handles[h].enabled), stopped)
    /\ UNCHANGED nextMsg

End(h) ==
    /\ Phase(h) # "closed"
    /\ LET s == onEnd(Cur, h)
       IN Commit(s, Op("end", handles[h].id, h, s, FALSE, handles[h].enabled), stopped)
    /\ UNCHANGED nextMsg

\* the 45 s interval outlasts the follow-up timeouts (1 s, 0.5 s) of its last tick
KeepAliveFire(id, outcome) ==
    /\ id \in ids
    /\ keepAliveTimers[id] # None
    /\ ~\E to \in timeouts : to.kind \in {"kaForward", "kaJump"}
                             /\ to.h = keepAliveTimers[id]
    /\ LET s == keepAliveFire(Cur, id, outcome)
       IN Commit(s, Op("keepAlive", id, keepAliveTimers[id], s, FALSE, FALSE), stopped)
    /\ UNCHANGED nextMsg

KeepAliveFollowUp(to) ==
    /\ to \in timeouts
    /\ to.kind \in {"kaForward", "kaJump"}
    /\ LET s == keepAliveFollowUp(Cur, to)
       IN Commit(s, Op("keepAliveFollowUp", to.id, to.h, s, FALSE, FALSE), stopped)
    /\ UNCHANGED nextMsg

Login1Fire(to, password) ==
    /\ to \in timeouts
    /\ to.kind = "login1"
    /\ LET s == login1Fire(Cur, to, password)
       IN Commit(s, Op("login1", to.id, to.h, s, FALSE, FALSE), stopped)
    /\ UNCHANGED nextMsg

Login2Fire(to) ==
    /\ to \in timeouts
    /\ to.kind = "login2"
    /\ LET s == login2Fire(Cur, to)
       IN Commit(s, Op("login2", to.id, to.h, s, FALSE, FALSE), stopped)
    /\ UNCHANGED nextMsg

\* timeouts run in the order of their due times, and of their creation when
\* these are equal
Earlier(a, b) ==
    \/ a.due < b.due
    \/ a.due = b.due /\ a.f < b.f
    \/ a.due = b.due /\ a.f = b.f /\ a.idx < b.idx

FlushFire(to, chatOk) ==
    /\ to \in timeouts
    /\ to.kind = "flush"
    /\ to.due = 0
    /\ ~\E o \in timeouts : o.kind = "flush" /\ Earlier(o, to)
    /\ LET s == flushFire(Cur, to, chatOk)
       IN Commit(s, Op("flush", to.id, bots[to.id], s, FALSE, FALSE), stopped)
    /\ UNCHANGED nextMsg

\* one second passes for the pending flush timeouts; a timeout that is due
\* runs before the clock moves on
Tick ==
    /\ \E to \in timeouts : to.kind = "flush"
    /\ \A to \in timeouts : to.kind = "flush" => to.due > 0
    /\ timeouts' = { IF to.kind = "flush" THEN [to EXCEPT !.due = @ - 1] ELSE to
                       : to \in timeouts }
    /\ flushes' = [f \in DOMAIN flushes |->
                       IF flushes[f].intact THEN [flushes[f] EXCEPT !.spaced = TRUE]
                       ELSE flushes[f]]
    /\ UNCHANGED <<ids, trace, bots, botStatus, keepAliveTimers, intervals, reconnectTimers,
                   reconnects, messageQueue, reconnectAttempts, handles, chatLog, sent,
                   nextMsg, stopped, failures, lastOp>>

Outcomes == {"throw", "plain", "jump"}

\* the operations, events and timers of the connection lifecycle
Lifecycle ==
    \/ \E id \in ids, en \in BOOLEAN, created \in BOOLEAN : StartBot(id, en, created)
    \/ \E id \in ids, created \in BOOLEAN : ReconnectFire(id, created)
    \/ \E id \in ids : StopBot(id)
    \/ ShutdownAll
    \/ \E h \in DOMAIN handles : Spawn(h)
    \/ \E h \in DOMAIN handles : Kicked(h)
    \/ \E h \in DOMAIN handles : Error(h)
    \/ \E h \in DOMAIN handles : End(h)

\* the keep-alive interval and the timeouts of the spawn handler and of the
\* keep-alive ticks
Timers ==
    \/ \E id \in ids, outcome \in Outcomes : KeepAliveFire(id, outcome)
    \/ \E to \in timeouts : KeepAliveFollowUp(to)
    \/ \E to \in timeouts, password \in BOOLEAN : Login1Fire(to, password)
    \/ \E to \in timeouts : Login2Fire(to)

Next == Lifecycle

Spec == Init /\ [][Next]_vars

\* the same machine, keeping the history of explicit starts and stops
InitStops == InitWith({"e1"}, MaxHandles, {"stops"})

SpecStops == InitStops /\ [][Next]_vars

\* the lifecycle together with the keep-alive and login timers
NextTimers == Lifecycle \/ Timers

InitTimers == InitWith({"e1"}, MaxHandlesTimers, {})

SpecTimers == InitTimers /\ [][NextTimers]_vars

\* an endpoint whose configs disable auto-reconnect, with sendMessage, the
\* flush timeouts and the clock
Connection ==
    \/ \E id \in ids : StartBot(id, FALSE, TRUE)
    \/ \E id \in ids : StopBot(id)
    \/ ShutdownAll
    \/ \E h \in DOMAIN handles : Spawn(h)
    \/ \E h \in DOMAIN handles : Kicked(h)
    \/ \E h \in DOMAIN handles : Error(h)
    \/ \E h \in DOMAIN handles : End(h)

NextMsg ==
    \/ Connection
    \/ \E id \in ids, chatOk \in BOOLEAN : SendMessage(id, chatOk) /\ nextMsg <= MaxMsgs
    \/ \E to \in timeouts, chatOk \in BOOLEAN : FlushFire(to, chatOk)
    \/ Tick

InitMsg == InitWith({"e1"}, MaxHandlesMsg, {"flush"})

SpecMsg == InitMsg /\ [][NextMsg]_vars

\* an endpoint with auto-reconnect enabled that is never stopped nor shut
\* down.  The reconnect timeout fires when it is due; a connection that has
\* failed is closed by the client in the end.
Unattended ==
    \/ \E id \in ids, created \in BOOLEAN : StartBot(id, TRUE, created)
    \/ \E id \in ids, created \in BOOLEAN : ReconnectFire(id, created)
    \/ \E h \in DOMAIN handles : Spawn(h)
    \/ \E h \in DOMAIN handles : Kicked(h)
    \/ \E h \in DOMAIN handles : Error(h)
    \/ \E h \in DOMAIN handles : End(h)

EndFailed(h) == Phase(h) = "failing" /\ End(h)

SpecUnattended ==
    /\ Init
    /\ [][Unattended]_vars
    /\ WF_vars(\E id \in AllIds, created \in BOOLEAN : ReconnectFire(id, created))
    /\ WF_vars(\E h \in 1..MaxHandles : EndFailed(h))

\* the same steps, with the history of failed attempts kept
InitBackoff == InitWith({"e1"}, MaxHandles, {"fails"})
SpecBackoff == InitBackoff /\ [][Unattended]_vars

\* an endpoint with auto-reconnect enabled: its whole lifecycle, reconnects and
\* failed attempts included, with sendMessage, the flush timeouts and the clock
NextQueue ==
    \/ Unattended
    \/ \E id \in ids : StopBot(id)
    \/ ShutdownAll
    \/ \E id \in ids, chatOk \in BOOLEAN : SendMessage(id, chatOk) /\ nextMsg <= MaxMsgs
    \/ \E to \in timeouts, chatOk \in BOOLEAN : FlushFire(to, chatOk)
    \/ Tick

InitQueue == InitWith({"e1"}, MaxHandlesMsg, {})

SpecQueue == InitQueue /\ [][NextQueue]_vars

\* two endpoints side by side.  e1 is started, stopped and reconnected at
\* will; e2 is started once and its reconnect timeout is not yet due.  Both
\* receive the spawn and end events of their handles and messages to send.
NextPair ==
    \/ StartBot("e1", TRUE, TRUE)
    \/ botStatus["e2"] = InitStatus /\ StartBot("e2", TRUE, TRUE)
    \/ ReconnectFire("e1", TRUE)
    \/ StopBot("e1")
    \/ \E h \in DOMAIN handles : Spawn(h)
    \/ \E h \in DOMAIN handles : End(h)
    \/ \E id \in ids : SendMessage(id, TRUE) /\ nextMsg <= MaxMsgsPair
    \/ \E to \in timeouts : FlushFire(to, TRUE)

InitPair == InitWith(AllIds, MaxHandlesPair, {})

SpecPair == InitPair /\ [][NextPair]_vars

\* the reconnect timeout fires and createBot throws, in a long row of failures
RetryFails(id) ==
    /\ id \in ids
    /\ reconnectTimers[id].pending
    /\ reconnectAttempts[id] < MaxCount
    /\ LET s == reconnectFire(Cur, id, FALSE)
       IN Commit(s, Op("reconnectFire", id, None, s, FALSE,
                       reconnectTimers[id].enabled), stopped)
    /\ UNCHANGED nextMsg

\* an enabled endpoint whose connection attempts fail up to MaxCount times in
\* a row
NextDelay ==
    \/ \E id \in ids, created \in BOOLEAN : StartBot(id, TRUE, created)
    \/ \E id \in ids : ReconnectFire(id, TRUE)
    \/ \E id \in ids : RetryFails(id)
    \/ \E h \in DOMAIN handles : Spawn(h)
    \/ \E h \in DOMAIN handles : Error(h)
    \/ \E h \in DOMAIN handles : End(h)

SpecDelay == Init /\ [][NextDelay]_vars

\* an enabled endpoint that is started, stopped and reconnected, whose
\* connections are closed by the client, with sendMessage, the flush timeouts
\* and the clock; the history of the chat calls is kept
NextChat ==
    \/ \E id \in ids : StartBot(id, TRUE, TRUE)
    \/ \E id \in ids : ReconnectFire(id, TRUE)
    \/ \E id \in ids : StopBot(id)
    \/ \E h \in DOMAIN handles : Spawn(h)
    \/ \E h \in DOMAIN handles : End(h)
    \/ \E id \in ids, chatOk \in BOOLEAN : SendMessage(id, chatOk) /\ nextMsg <= MaxMsgsChat
    \/ \E to \in timeouts, chatOk \in BOOLEAN : FlushFire(to, chatOk)
    \/ Tick

InitChat == InitWith({"e1"}, MaxHandlesChat, {"chat"})

SpecChat == InitChat /\ [][NextChat]_vars

\* the same steps, keeping for each message the number of its chat calls that
\* returned
InitSent == InitWith({"e1"}, MaxHandlesChat, {"sent"})

SpecSent == InitSent /\ [][NextChat]_vars

\* an endpoint that is started and stopped by hand (its config disables
\* auto-reconnect), with the keep-alive interval of its spawned handle and the
\* follow-up timeouts of the interval's ticks
NextKeepAlive ==
    \/ \E id \in ids : StartBot(id, FALSE, TRUE)
    \/ \E id \in ids : StopBot(id)
    \/ \E h \in DOMAIN handles : Spawn(h)
    \/ \E h \in DOMAIN handles : End(h)
    \/ \E id \in ids, outcome \in Outcomes : KeepAliveFire(id, outcome)
    \/ \E to \in timeouts : KeepAliveFollowUp(to)

SpecKeepAlive == InitTimers /\ [][NextKeepAlive]_vars

\* ---- the properties --------------------------------------------------------

Disconnects == {"kicked", "error", "end"}
Starts == {"startBot", "reconnectFire"}

\* a handle is live from its creation until it is told to quit or emits
\* kicked, error or end
Live(h) == Phase(h) \in {"connecting", "spawned"}

LiveHandles(id) == {h \in DOMAIN handles : handles[h].id = id /\ Live(h)}

\* C1: whatever operations, timer firings and client events have run, late
\* events of earlier handles included, each endpoint id has at most one live
\* connection handle.
C1_AtMostOneLiveHandle ==
    \A id \in ids : Cardinality(LiveHandles(id)) <= 1

\* C2: from the return of stopBot(id) to the next explicit startBot(id), no
\* reconnect timer is scheduled or pending for id and no connection attempt is
\* started for it, whatever events arrive and whether or not stopBot found a
\* handle registered.
C2_ManualStopWins ==
    \A id \in ids :
        stopped[id] # "no" =>
            /\ ~reconnectTimers[id].pending
            /\ lastOp.id = id => ~lastOp.sched /\ lastOp.op # "reconnectFire"

\* C3: right after stopBot(id) returns, the status of id is 'offline', with or
\* without a handle registered when it was called.
C3_OfflineAfterStop ==
    lastOp.op = "stopBot" => botStatus[lastOp.id].status = "offline"

\* C4: after stopBot(id) found a handle registered, a kicked, error or end
\* event of that handle schedules no reconnect timer, and no reconnect timer
\* and no keep-alive timer of id fires until the next explicit startBot(id).
C4_StoppedHandleSilent ==
    /\ lastOp.op \in Disconnects /\ lastOp.ms => ~lastOp.sched
    /\ \A id \in ids :
           stopped[id] = "handle" /\ lastOp.id = id
               => lastOp.op \notin {"reconnectFire", "keepAlive"}

\* C5: startBot for an endpoint with a registered handle creates no handle and
\* leaves the registered handle, the status record, the attempt counter, the
\* message queue and the keep-alive timer as they were.
C5_StartRunningNoOp ==
    [][\A id \in ids :
          bots[id] # None /\ lastOp'.op \in Starts /\ lastOp'.id = id
              => /\ lastOp'.ret = "running"
                 /\ bots' = bots
                 /\ handles' = handles
                 /\ botStatus' = botStatus
                 /\ reconnectAttempts' = reconnectAttempts
                 /\ messageQueue' = messageQueue
                 /\ keepAliveTimers' = keepAliveTimers]_vars

C5_Witness ==
    /\ lastOp.op = "startBot"
    /\ lastOp.ret = "running"
    /\ bots[lastOp.id] # None

\* C6: a kicked, error or end event of a handle whose config disables
\* auto-reconnect, and a failed startBot with such a config, schedules no
\* reconnect timer, whatever the attempt counter is.
C6_DisabledNeverSchedules ==
    lastOp.op \in Disconnects \cup Starts /\ ~lastOp.en => ~lastOp.sched

C6_Witness ==
    /\ lastOp.op = "kicked"
    /\ ~lastOp.en
    /\ reconnectAttempts[lastOp.id] > 0

\* C7: when the spawn event of the handle a startBot created is the next thing
\* to happen after that startBot, the status is 'online', connectedSince is
\* set and the attempt counter is 0.
C7_OnlineAfterSpawn ==
    lastOp.op = "spawn" /\ lastOp.fresh =>
        /\ botStatus[lastOp.id].status = "online"
        /\ botStatus[lastOp.id].connectedSince # Null
        /\ reconnectAttempts[lastOp.id] = 0

C7_Witness ==
    /\ lastOp.op = "spawn"
    /\ lastOp.fresh
    /\ botStatus[lastOp.id].lastError # Null

\* C8: sendMessage while the status is 'offline' returns queued without
\* calling chat, and appends the message at the end of the queue.
C8_OfflineQueues ==
    [][\A id \in ids :
          /\ nextMsg' # nextMsg
          /\ lastOp'.id = id
          /\ botStatus[id].status = "offline"
          => /\ lastOp'.op = "sendMessage"
             /\ lastOp'.ret = "queued"
             /\ messageQueue'[id] = Append(messageQueue[id], nextMsg)]_vars

C8_Witness ==
    /\ lastOp.op = "sendMessage"
    /\ lastOp.ret = "queued"
    /\ botStatus[lastOp.id].status = "offline"
    /\ Len(messageQueue[lastOp.id]) >= 2

FlushMsgs(f) == {flushes[f].msgs[i] : i \in 1..Len(flushes[f].msgs)}

C10_TransmitOnlyOnline ==
    lastOp.op = "sendMessage" /\ botStatus[lastOp.id].status # "online"
        => lastOp.ret = "queued"

\* C11: when bot.chat throws in a sendMessage made while the endpoint is online
\* with its handle registered, sendMessage returns false, the message is
\* appended at the end of the queue, and the status, the registered handle
\* and all timers are as before.
C11_SendFailureQueues ==
    [][\A id \in ids :
          /\ nextMsg' # nextMsg
          /\ lastOp'.id = id
          /\ botStatus[id].status = "online"
          /\ bots[id] # None
          => \/ /\ lastOp'.ret = "sent"
                /\ messageQueue' = messageQueue
             \/ /\ lastOp'.ret = "failed"
                /\ messageQueue'[id] = Append(messageQueue[id], nextMsg)
                /\ botStatus' = botStatus
                /\ bots' = bots
                /\ keepAliveTimers' = keepAliveTimers
                /\ reconnectTimers' = reconnectTimers
                /\ timeouts' = timeouts]_vars

C11_Witness ==
    /\ lastOp.op = "sendMessage"
    /\ lastOp.ret = "failed"
    /\ botStatus[lastOp.id].status = "online"
    /\ bots[lastOp.id] # None
    /\ Len(messageQueue[lastOp.id]) >= 2

\* startBot went past the running check for id: it set status 'connecting'
\* and called createBot, which returned ("created") or threw ("failed")
Attempted(id) ==
    lastOp.op \in Starts /\ lastOp.id = id /\ lastOp.ret \in {"created", "failed"}

C13_BackoffDelays ==
    /\ [][\A id \in ids :
             (failures'[id] # failures[id] /\ failures'[id] \in 1..3)
             => /\ reconnectTimers'[id].pending
                /\ reconnectTimers'[id].delay =
                       <<5000 * 1024, 7500 * 1024, 11250 * 1024>>[failures'[id]]]_vars
    /\ [](\A id \in ids : reconnectTimers[id].delay <= 300000 * 1024)
    /\ [](\A n \in 11..16 : ReconnectDelay(n) = 300000 * 1024)

\* shutdownAll told handle h to quit (stopBot sets manuallyStopped as well)
QuitByShutdown(h) ==
    handles[h].phase = "closing" /\ ~handles[h].manuallyStopped

\* C14: the kicked, error and end events of a handle that shutdownAll told to
\* quit schedule no reconnect timer: the reconnect timers stay as they are, so
\* that no connection attempt follows from them.
C14_ShutdownNoReconnect ==
    [][\A h \in DOMAIN handles :
          (QuitByShutdown(h) /\ lastOp'.op \in Disconnects /\ lastOp'.h = h)
          => ~lastOp'.sched /\ reconnectTimers' = reconnectTimers]_vars

\* C15: when shutdownAll returns no reconnect timer and no keep-alive timer is
\* pending for any endpoint, registered or not, and no flush or login timeout
\* is left to fire.
C15_ShutdownCancelsTimers ==
    [][lastOp'.op = "shutdownAll"
          => /\ \A id \in AllIds : /\ ~reconnectTimers'[id].pending
                                  /\ keepAliveTimers'[id] = None
             /\ timeouts' = {}]_vars

\* C16: shutdownAll is idempotent: from every reachable state a second call
\* right after the first leaves the registered handles, timers, status
\* records, queues, attempt counters and bot objects as the first call left
\* them.
C16_ShutdownIdempotent ==
    LET once == shutdownAll(Cur)
    IN shutdownAll(once) = once

C16_Witness ==
    /\ lastOp.op = "shutdownAll"
    /\ \E h \in DOMAIN handles : QuitByShutdown(h)
    /\ \E id \in ids : botStatus[id].status = "online"
    /\ shutdownAll(Cur) = Cur

\* C17: a kicked or error event of the registered handle leaves status 'error'
\* with lastError set, an end event of the registered handle status 'offline',
\* and the end that follows a kicked or error event of the same handle leaves
\* the status record as that event set it.
C17_DisconnectStatus ==
    [][\A id \in ids :
          /\ (lastOp'.op \in {"kicked", "error"} /\ lastOp'.id = id
                  /\ bots[id] # None /\ bots[id] = lastOp'.h)
             => /\ botStatus'[id].status = "error"
                /\ botStatus'[id].lastError # Null
          /\ (lastOp'.op = "end" /\ lastOp'.id = id
                  /\ bots[id] # None /\ bots[id] = lastOp'.h)
             => botStatus'[id].status = "offline"
          /\ (lastOp'.op = "end" /\ lastOp'.id = id
                  /\ handles[lastOp'.h].phase = "failing")
             => botStatus'[id] = botStatus[id]]_vars

IsPrefix(p, q) == Len(p) <= Len(q) /\ SubSeq(q, 1, Len(p)) = p

\* C18: no step but the spawn handler's flush removes or reorders queued
\* messages: sendMessage appends, and stopBot, shutdownAll, the kicked, error
\* and end events, startBot (failed or not), the reconnect timeout and the
\* flush timeouts leave every queue as it is.
C18_QueueKept ==
    [][\A id \in AllIds :
          /\ lastOp'.op # "spawn" => IsPrefix(messageQueue[id], messageQueue'[id])
          /\ lastOp'.op \notin {"spawn", "sendMessage"}
                => messageQueue'[id] = messageQueue[id]]_vars

C18_Witness ==
    /\ lastOp.op = "reconnectFire"
    /\ lastOp.ret = "failed"
    /\ Len(messageQueue[lastOp.id]) = 2
    /\ \E h \in DOMAIN handles : Phase(h) = "closing"

\* C19: the spawn handler leaves the endpoint's queue empty although the
\* flush timeouts it set are still pending, and a flush timeout that fires,
\* whether it finds a registered handle or not and whether chat returns or
\* throws, is gone afterwards with every queue as it was: its message is not
\* queued again and no further timeout holds it.
C19_FlushDrops ==
    [][/\ lastOp'.op = "spawn" => messageQueue'[lastOp'.id] = <<>>
       /\ \A to \in timeouts :
             (to.kind = "flush" /\ to.due = 0 /\ to \notin timeouts')
             => /\ lastOp'.op = "flush"
                /\ messageQueue' = messageQueue
                /\ timeouts' = timeouts \ {to}]_vars

C19_Witness ==
    /\ lastOp.op = "flush"
    /\ lastOp.h = None
    /\ nextMsg > 1
    /\ messageQueue[lastOp.id] = <<>>
    /\ ~\E to \in timeouts : to.kind = "flush"

\* the patches the supervisor passes to updateStatus: by startBot, the spawn,
\* kicked, error and end handlers, the statistics interval, the catch block of
\* startBot and stopBot
StatusPatches ==
    { [status |-> "connecting"],
      [status |-> "online", connectedSince |-> Timestamp],
      [status |-> "offline", lastError |-> "kicked"],
      [status |-> "error", lastError |-> "error"],
      [status |-> "offline"],
      [stats |-> "stats"] }

\* C20: updateStatus(id, patch) is a shallow merge: in every reachable state
\* and for every patch the supervisor uses, the new status record of id has
\* the patch's value in each field of the patch, the previous value in every
\* other field, and no further field; the records of other ids are kept.
C20_ShallowMerge ==
    \A id \in ids, patch \in StatusPatches :
        LET after == updateStatus(Cur, id, patch).botStatus
        IN /\ DOMAIN after[id] = DOMAIN botStatus[id] \cup DOMAIN patch
           /\ \A f \in DOMAIN patch : after[id][f] = patch[f]
           /\ \A f \in DOMAIN botStatus[id] \ DOMAIN patch :
                 after[id][f] = botStatus[id][f]
           /\ \A other \in AllIds \ {id} : after[other] = botStatus[other]

C20_Witness ==
    /\ lastOp.op = "end"
    /\ botStatus[lastOp.id].status = "offline"
    /\ botStatus[lastOp.id].lastError = "error"
    /\ botStatus[lastOp.id].connectedSince = Timestamp

\* what the supervisor holds for endpoint id: its registered handle, status
\* record, queue, attempt counter, reconnect and keep-alive timer, its bot
\* objects that have not ended and its pending timeouts
Holds(id) ==
    [bot |-> bots[id], status |-> botStatus[id], queue |-> messageQueue[id],
     attempts |-> reconnectAttempts[id], reconnect |-> reconnectTimers[id],
     keepAlive |-> keepAliveTimers[id],
     objects |-> {<<h, handles[h]>> : h \in {g \in DOMAIN handles :
                      handles[g].id = id /\ handles[g].phase # "closed"}},
     timeouts |-> {to \in timeouts : to.id = id}]

\* C21: a step taken for one endpoint (startBot, stopBot, sendMessage, an
\* event of one of its handles, one of its timers firing) leaves all that the
\* supervisor holds for every other endpoint unchanged.
C21_EndpointsIndependent ==
    [][\A other \in AllIds \ {lastOp'.id} : Holds(other)' = Holds(other)]_vars

C21_Witness ==
    /\ lastOp.op = "stopBot"
    /\ lastOp.id = "e1"
    /\ lastOp.h # None
    /\ botStatus["e2"].status = "online"
    /\ bots["e2"] # None
    /\ keepAliveTimers["e2"] # None
    /\ \E to \in timeouts : to.id = "e2"

\* C22: a spawn, kicked, error or end event of a handle that is not the one
\* registered for its endpoint leaves the endpoint's status record, registered
\* handle, keep-alive timer, reconnect timer and attempt counter unchanged.
C22_StaleEventsDiscarded ==
    [][\A id \in ids :
          (/\ lastOp'.op \in {"spawn", "kicked", "error", "end"}
           /\ lastOp'.id = id
           /\ bots[id] # lastOp'.h)
          => /\ botStatus'[id] = botStatus[id]
             /\ bots'[id] = bots[id]
             /\ keepAliveTimers'[id] = keepAliveTimers[id]
             /\ reconnectTimers'[id] = reconnectTimers[id]
             /\ reconnectAttempts'[id] = reconnectAttempts[id]]_vars

\* C23: right after a spawn event was handled (status 'online') the
\* endpoint's attempt counter is 0 and no reconnect timer is pending for it.
C23_OnlineResetsReconnect ==
    [][\A id \in ids :
          (lastOp'.op = "spawn" /\ lastOp'.id = id /\ botStatus'[id].status = "online")
          => /\ reconnectAttempts'[id] = 0
             /\ ~reconnectTimers'[id].pending]_vars

\* min(300 s, 5 s * 1.5^n) in units of 1/1024 ms: the division is exact up to
\* n = 13, and from n = 12 on the value is that of n = 12 (1.5^12 > 60)
BackoffFormula(n) ==
    LET m == IF n <= 12 THEN n ELSE 12
    IN IF 3^m >= 60 * 2^m THEN 300000 * 1024
       ELSE ((5000 * 1024) \div 2^m) * 3^m

\* C24: every step that schedules a reconnect increments the endpoint's
\* attempt counter by one (to 1 after a reset) and sets the timer's delay to
\* min(300 s, 5 s * 1.5^attempt) for the incremented counter.
C24_DelayFormula ==
    [][\A id \in ids :
          (lastOp'.sched /\ lastOp'.id = id)
          => /\ reconnectTimers'[id].pending
             /\ reconnectAttempts'[id] = reconnectAttempts[id] + 1
             /\ reconnectTimers'[id].delay = BackoffFormula(reconnectAttempts'[id])]_vars

C24_Witness ==
    /\ lastOp.sched
    /\ reconnectAttempts[lastOp.id] = 4
    /\ reconnectTimers[lastOp.id].pending
    /\ reconnectTimers[lastOp.id].delay = 25920000

\* C25: the reconnect delay is monotone and capped: for the attempt count n
\* the endpoint has reached (n >= 1), and for every smaller one,
\* delay(n) <= delay(n + 1) <= 300 s; and a reconnect that replaces a pending
\* one of the same row of failures is never scheduled sooner.
C25_DelayMonotone ==
    /\ [](\A id \in ids : \A n \in 1..reconnectAttempts[id] :
             /\ ReconnectDelay(n) <= ReconnectDelay(n + 1)
             /\ ReconnectDelay(n + 1) <= 300000 * 1024)
    /\ [][\A id \in ids :
             (lastOp'.sched /\ lastOp'.id = id /\ reconnectTimers[id].pending
                 /\ lastOp'.op # "reconnectFire")
             => /\ reconnectTimers[id].delay <= reconnectTimers'[id].delay
                /\ reconnectTimers'[id].delay <= 300000 * 1024]_vars

C25_Witness ==
    /\ lastOp.sched
    /\ reconnectAttempts[lastOp.id] = 11
    /\ reconnectTimers[lastOp.id].delay = 300000 * 1024
    /\ ReconnectDelay(10) < 300000 * 1024

\* C26: the delay of the first retry is the base delay, delay(1) = 5 s: the
\* reconnect scheduled when the attempt counter was reset (0, incremented to
\* 1 for this retry) is set 5 s ahead.
C26_FirstDelayIsBase ==
    [][\A id \in ids :
          (lastOp'.sched /\ lastOp'.id = id /\ reconnectAttempts[id] = 0)
          => /\ reconnectAttempts'[id] = 1
             /\ reconnectTimers'[id].delay = 5000 * 1024]_vars

\* C27: after a kicked, error or end event was handled, no keep-alive
\* interval of the endpoint is running or kept and no handle is registered
\* for it.
C27_DisconnectCleansUp ==
    [][\A id \in ids :
          (lastOp'.op \in Disconnects /\ lastOp'.id = id)
          => /\ keepAliveTimers'[id] = None
             /\ intervals'[id] = 0
             /\ bots'[id] = None]_vars

C27_Witness ==
    /\ lastOp.op = "kicked"
    /\ lastOp.h # None
    /\ botStatus[lastOp.id].connectedSince = Timestamp
    /\ keepAliveTimers[lastOp.id] = None
    /\ bots[lastOp.id] = None
    /\ \E h \in DOMAIN handles : h # lastOp.h /\ Phase(h) = "spawned"

\* C28: in every reachable state at most one keep-alive interval is running
\* per endpoint, and it is the one kept in keepAliveTimers: none runs
\* untracked.
C28_OneKeepAlive ==
    \A id \in AllIds :
        /\ intervals[id] <= 1
        /\ intervals[id] = 1 <=> keepAliveTimers[id] # None

\* a spawn event whose startKeepAlive found the interval of the registered
\* handle running, cleared it and set a new one
C28_Witness ==
    /\ lastOp.op = "spawn"
    /\ keepAliveTimers[lastOp.id] # None
    /\ keepAliveTimers[lastOp.id] # lastOp.h
    /\ Phase(keepAliveTimers[lastOp.id]) = "spawned"
    /\ intervals[lastOp.id] = 1

\* C29: right after stopBot(id) no reconnect timer is pending for id, its
\* attempt counter is 0, no keep-alive interval of it is running or kept, no
\* handle is registered for it, and the handle that was registered has been
\* told to quit.
C29_StopClearsAll ==
    [][\A id \in ids :
          (lastOp'.op = "stopBot" /\ lastOp'.id = id)
          => /\ ~reconnectTimers'[id].pending
             /\ reconnectAttempts'[id] = 0
             /\ keepAliveTimers'[id] = None
             /\ intervals'[id] = 0
             /\ bots'[id] = None
             /\ bots[id] # None => handles'[bots[id]].phase = "closing"]_vars

C29_Witness ==
    /\ lastOp.op = "stopBot"
    /\ lastOp.h # None
    /\ Phase(lastOp.h) = "closing"
    /\ botStatus[lastOp.id].status = "online"
    /\ botStatus[lastOp.id].lastError # Null
    /\ bots[lastOp.id] = None

\* C30: the status of an endpoint becomes 'online' only from 'connecting' (by
\* a spawn event), 'connecting' only by startBot, called explicitly or by the
\* reconnect timeout, and 'error' or 'offline' only by a kicked, error or end
\* event, a failed start or stopBot.
C30_StatusTransitions ==
    [][\A id \in ids :
          botStatus'[id].status # botStatus[id].status
          => /\ lastOp'.id = id
             /\ botStatus'[id].status = "online"
                  => lastOp'.op = "spawn" /\ botStatus[id].status = "connecting"
             /\ botStatus'[id].status = "connecting" => lastOp'.op \in Starts
             /\ botStatus'[id].status \in {"error", "offline"}
                  => \/ lastOp'.op \in Disconnects
                     \/ lastOp'.op \in Starts /\ lastOp'.ret = "failed"
                     \/ lastOp'.op = "stopBot"]_vars

\* C31: once stopBot(id) has returned, no keep-alive action (lookAt,
\* setControlState, look) is performed on the handle it stopped, neither by a
\* tick of the interval nor by the delayed follow-up of a tick that fired
\* before the stop.
C31_NoKeepAliveAfterStop ==
    lastOp.op \in {"keepAlive", "keepAliveFollowUp"} /\ lastOp.ret = "acted"
        => ~lastOp.ms

C33_HandleOrTimer ==
    /\ \A id \in AllIds : ~(bots[id] # None /\ reconnectTimers[id].pending)
    /\ lastOp.op \in Starts /\ lastOp.ret = "created"
           => bots[lastOp.id] # None /\ ~reconnectTimers[lastOp.id].pending

\* the end event of an earlier handle schedules a reconnect while a later
\* handle of the endpoint is connected: that handle is registered no more
C33_Witness ==
    /\ lastOp.op = "end"
    /\ lastOp.sched
    /\ reconnectTimers[lastOp.id].pending
    /\ bots[lastOp.id] = None
    /\ \E h \in DOMAIN handles :
           h # lastOp.h /\ handles[h].id = lastOp.id /\ Live(h)

\* C34: in every reachable state an endpoint whose status is 'online' has a
\* handle registered and its keep-alive interval running.
C34_OnlineHasHandle ==
    \A id \in ids :
        botStatus[id].status = "online"
            => /\ bots[id] # None
               /\ keepAliveTimers[id] # None
               /\ intervals[id] = 1

\* C35: one connection drop is counted once: the kicked or error event of a
\* handle that schedules a reconnect increments the attempt counter by 1, and
\* the end event that follows from the same handle leaves the counter and the
\* pending reconnect timer, its delay included, as that event set them.
C35_DropCountedOnce ==
    [][\A h \in DOMAIN handles :
          /\ (lastOp'.op \in {"kicked", "error"} /\ lastOp'.h = h /\ lastOp'.sched)
             => reconnectAttempts'[handles[h].id] = reconnectAttempts[handles[h].id] + 1
          /\ (lastOp'.op = "end" /\ lastOp'.h = h /\ Phase(h) = "failing")
             => /\ reconnectAttempts' = reconnectAttempts
                /\ reconnectTimers' = reconnectTimers]_vars

\* the accepted messages whose chat call returned, in the order of the calls
\* (message numbers are given in the order of acceptance by sendMessage)
Transmitted == SelectSeq(chatLog, LAMBDA e : e.ok)

\* C36: the messages of an endpoint are transmitted in the order in which
\* sendMessage accepted them: a message accepted later is never passed to
\* chat before a transmitted message accepted earlier, messages sent while a
\* flush is in progress included.
C36_TransmitInOrder ==
    \A i, j \in DOMAIN Transmitted :
        i < j => Transmitted[i].msg <= Transmitted[j].msg

\* C37: no message accepted by sendMessage is transmitted (passed to a chat
\* call that returns) more than once, whatever flushes, reconnects, stops and
\* failed chat calls happen.
C37_TransmittedOnce ==
    \A m \in DOMAIN sent : sent[m] <= 1

\* a message whose direct chat call threw is queued and transmitted by the
\* flush of a later connection, after an earlier flush transmitted another
C37_Witness ==
    /\ lastOp.op = "flush"
    /\ DOMAIN sent = {1, 2}
    /\ sent[2] = 1
    /\ botStatus[lastOp.id].connectedSince = Timestamp
    /\ nextMsg > 2
    /\ ~\E to \in timeouts : to.kind = "flush"

\* C38: a queued message is passed to chat only through a handle that has
\* emitted spawn: no flush timeout calls chat on a registered handle that is
\* still connecting.
C38_FlushOnlyOnline ==
    \A i \in DOMAIN chatLog :
        chatLog[i].src = "flush" => chatLog[i].via = "spawned"

\* what the manager s holds for endpoint id: status record, registered handle,
\* keep-alive and reconnect timer, attempt counter and queue
Endpoint(s, id) ==
    [status |-> s.botStatus[id], bot |-> s.bots[id],
     keepAlive |-> s.keepAliveTimers[id], intervals |-> s.intervals[id],
     reconnect |-> s.reconnectTimers[id], reconnects |-> s.reconnects[id],
     attempts |-> s.reconnectAttempts[id], queue |-> s.messageQueue[id]]

\* C39: stopBot is idempotent: from every reachable state, stopBot(id) called
\* a second time right after the first leaves the endpoint's status record,
\* registered handle, timers, attempt counter and queue as the first call
\* left them.
C39_StopIdempotent ==
    \A id \in ids :
        LET once == stopBot(Cur, id)
        IN Endpoint(stopBot(once, id), id) = Endpoint(once, id)
====
